---- MODULE Spec2Model ----
(***************************************************************************)
(* A model of src/src/map.c of allegro_tiled: the tile accessors           *)
(* (lookup_tile, al_get_single_tile, al_get_tiles, flipped_horizontally,   *)
(* flipped_vertically), the registry and property lookups                  *)
(* (al_get_tile_for_id, al_get_tile_property, al_get_object_property) and  *)
(* the teardown of the ownership graph (al_free_map and its helpers).      *)
(*                                                                         *)
(* Memory is modelled at the level the C code works on: layer data is a    *)
(* flat array of bytes 0..255, a `char` is the byte read through the       *)
(* build's signedness (charSigned), integer expressions are 32-bit two's   *)
(* complement, and every release of an allocation is an event of `log`.    *)
(***************************************************************************)
EXTENDS Integers, Sequences, FiniteSets, TLC

VARIABLES
    charSigned,   \* whether plain `char` is signed in this build
    map,          \* the TILED_MAP graph handed over by the parser
    grids,        \* per layer, the unflagged id grid the data was built from
    ret,          \* the last call of an accessor and what it returned
    pc,           \* position inside al_free_map ("live" before the call)
    log           \* the reads and releases al_free_map has performed so far

vars == <<charSigned, map, grids, ret, pc, log>>

-----------------------------------------------------------------------------
(* Bounds of the model *)

MaxW == 2
MaxH == 2
MaxLayers == 2
MaxProps == 2
MaxTilesets == 2
MaxTiles == 1
MaxObjects == 1
MaxGroups == 1

-----------------------------------------------------------------------------
(* C integer arithmetic *)

IntBits == 32
CharBits == 8

RECURSIVE Pow2(_)
Pow2(n) == IF n = 0 THEN 1 ELSE 2 * Pow2(n - 1)

\* Bitwise operators on an int in two's complement.  \div and % round down,
\* so v % 2 is the lowest bit of v and v \div 2 the arithmetic shift; after
\* IntBits-1 shifts what is left is the sign, 0 or -1.
RECURSIVE AndBits(_, _, _)
AndBits(a, b, n) ==
    IF n = 0 THEN (IF a = -1 /\ b = -1 THEN -1 ELSE 0)
    ELSE (a % 2) * (b % 2) + 2 * AndBits(a \div 2, b \div 2, n - 1)

RECURSIVE OrBits(_, _, _)
OrBits(a, b, n) ==
    IF n = 0 THEN (IF a = -1 \/ b = -1 THEN -1 ELSE 0)
    ELSE (IF a % 2 = 1 \/ b % 2 = 1 THEN 1 ELSE 0)
         + 2 * OrBits(a \div 2, b \div 2, n - 1)

IntAnd(a, b) == AndBits(a, b, IntBits - 1)
IntOr(a, b) == OrBits(a, b, IntBits - 1)
IntNot(a) == (-a) - 1

\* The value of a stored byte read as a `char` (integer promotion included).
ByteToChar(b) == IF charSigned /\ b >= Pow2(CharBits - 1) THEN b - Pow2(CharBits) ELSE b
\* Conversion of an int to `char`: the low byte, read through the signedness.
IntToChar(v) == ByteToChar(v % Pow2(CharBits))
-----------------------------------------------------------------------------
(* map.h: the flag bits of a tile byte (the three most-significant bits) *)

FLIPPED_HORIZONTALLY_FLAG == 128
FLIPPED_VERTICALLY_FLAG == 64
FLIPPED_DIAGONALLY_FLAG == 32

\* A tile pointer is the place of the tile in the graph: tileset ts, tile t.
\* An object pointer is the place of the object in map->objects.
TileRef(i, j) == [ts |-> i, t |-> j]
NULL == TileRef(0, 0)
NULL_OBJECT == 0

-----------------------------------------------------------------------------
(* Tile lookup, map.c:27-82 *)

\* The array position lookup_tile reads: x+(y*layer->width).
tile_index_no_width(layer, x, y) == x + y

tile_index(layer, x, y) == x + (y * layer.width)

\* layer->data[x+(y*layer->width)], returned as a char.
lookup_tile(layer, x, y) == ByteToChar(layer.data[tile_index(layer, x, y) + 1])

al_get_single_tile_two_flags(layer, x, y) ==
    IntToChar(IntAnd(lookup_tile(layer, x, y),
                     IntNot(IntOr(FLIPPED_HORIZONTALLY_FLAG,
                                  FLIPPED_VERTICALLY_FLAG))))

\* id &= ~(H|V|D); return id;
al_get_single_tile(layer, x, y) ==
    IntToChar(IntAnd(lookup_tile(layer, x, y),
                     IntNot(IntOr(IntOr(FLIPPED_HORIZONTALLY_FLAG,
                                        FLIPPED_VERTICALLY_FLAG),
                                  FLIPPED_DIAGONALLY_FLAG))))

\* return lookup_tile(layer, x, y) & FLIPPED_HORIZONTALLY_FLAG;  (as a bool)
flipped_horizontally(layer, x, y) ==
    IntAnd(lookup_tile(layer, x, y), FLIPPED_HORIZONTALLY_FLAG) # 0

flipped_vertically_copy_paste(layer, x, y) ==
    IntAnd(lookup_tile(layer, x, y), FLIPPED_HORIZONTALLY_FLAG) # 0

\* return lookup_tile(layer, x, y) & FLIPPED_VERTICALLY_FLAG;  (as a bool)
flipped_vertically(layer, x, y) ==
    IntAnd(lookup_tile(layer, x, y), FLIPPED_VERTICALLY_FLAG) # 0

\* (char)-1, the terminator al_get_tiles stores.
Sentinel == IntToChar(-1)

\* g_slist_length(map->layers)
g_slist_length(list) == Len(list)

\* The number of chars malloc(sizeof(char) * (layer_count)) provides.
tiles_alloc(layer_count) == layer_count

\* The while loop of al_get_tiles: tiles[i] = al_get_single_tile(layer, x, y)
\* for the i-th layer of map->layers, i counted from 0.
tiles_loop(layers, x, y) ==
    [i \in 1 .. Len(layers) |-> al_get_single_tile(layers[i], x, y)]

\* The indices al_get_tiles stores to: the sentinel store at layer_count and
\* the loop's stores at 0 .. layer_count-1.
tiles_written(layer_count) == {layer_count} \cup (0 .. (layer_count - 1))

-----------------------------------------------------------------------------
(* The graph the parser hands over (the parser is outside map.c) *)

NoRet == [op |-> "none"]

EmptyMap == [layers |-> <<>>, tilesets |-> <<>>, objects |-> <<>>,
             object_groups |-> <<>>, tiles |-> <<>>]

Cells(w, h) == (0 .. (w - 1)) \X (0 .. (h - 1))

\* The ids a byte can hold beside the three flag bits, and the flag settings.
UnflaggedIds == 0 .. (FLIPPED_DIAGONALLY_FLAG - 1)
FlagSettings ==
    {h + v + d : h \in {0, FLIPPED_HORIZONTALLY_FLAG},
                 v \in {0, FLIPPED_VERTICALLY_FLAG},
                 d \in {0, FLIPPED_DIAGONALLY_FLAG}}

\* A layer's data array filled row-major from an id grid and a flag grid.
FillRowMajor(w, h, ids, flags) ==
    [k \in 1 .. (w * h) |->
        LET x == (k - 1) % w
            y == (k - 1) \div w
        IN  ids[<<x, y>>] + flags[<<x, y>>]]

\* The grids every cell but the probed one is filled from: an id that is
\* different for every cell of every layer, and flags that vary with the cell.
BaseId(l, w, h, c) == 1 + c[1] + (c[2] * w) + ((l - 1) * w * h)
BaseFlags(l, c) ==
    (IF (c[1] + l) % 2 = 1 THEN FLIPPED_HORIZONTALLY_FLAG ELSE 0)
    + (IF (c[2] + l) % 2 = 0 THEN FLIPPED_VERTICALLY_FLAG ELSE 0)
    + (IF (c[1] + c[2]) % 2 = 1 THEN FLIPPED_DIAGONALLY_FLAG ELSE 0)

IdGrid(l, w, h, pl, pc0, pid) ==
    [c \in Cells(w, h) |-> IF l = pl /\ c = pc0 THEN pid ELSE BaseId(l, w, h, c)]
FlagGrid(l, w, h, pl, pc0, pfl) ==
    [c \in Cells(w, h) |-> IF l = pl /\ c = pc0 THEN pfl ELSE BaseFlags(l, c)]

MakeLayer(l, w, h, pl, pc0, pid, pfl) ==
    [width |-> w, height |-> h,
     data |-> FillRowMajor(w, h, IdGrid(l, w, h, pl, pc0, pid),
                           FlagGrid(l, w, h, pl, pc0, pfl))]

-----------------------------------------------------------------------------
(* Specifications of the tile accessors: one call on a map per behaviour *)

\* Maps of n layers of w x h cells.  The last cell of the last layer holds
\* any id with any flag setting, every other cell its base id and flags.
InitLayers(counts) ==
    /\ charSigned \in BOOLEAN
    /\ pc = "live"
    /\ log = <<>>
    /\ ret = NoRet
    /\ \E w \in 1 .. MaxW, h \in 1 .. MaxH, n \in counts :
         \/ /\ n = 0
            /\ map = EmptyMap
            /\ grids = <<>>
         \/ /\ n > 0
            /\ \E pid \in UnflaggedIds, pfl \in FlagSettings :
                 LET pc0 == <<w - 1, h - 1>> IN
                 /\ map = [EmptyMap EXCEPT !.layers =
                              [l \in 1 .. n |-> MakeLayer(l, w, h, n, pc0, pid, pfl)]]
                 /\ grids = [l \in 1 .. n |-> IdGrid(l, w, h, n, pc0, pid)]

InitTile == InitLayers({1})
InitTiles == InitLayers(0 .. MaxLayers)

\* The (x,y) that are in bounds of every layer of the map.
InBounds(x, y) ==
    \A l \in 1 .. Len(map.layers) :
        /\ x < map.layers[l].width
        /\ y < map.layers[l].height

Call_al_get_single_tile ==
    /\ pc = "live" /\ ret = NoRet
    /\ \E l \in 1 .. Len(map.layers) :
       \E x \in 0 .. (map.layers[l].width - 1), y \in 0 .. (map.layers[l].height - 1) :
         ret' = [op |-> "al_get_single_tile", layer |-> l, x |-> x, y |-> y,
                 index |-> tile_index(map.layers[l], x, y),
                 value |-> al_get_single_tile(map.layers[l], x, y)]
    /\ UNCHANGED <<charSigned, map, grids, pc, log>>

Call_flipped_horizontally ==
    /\ pc = "live" /\ ret = NoRet
    /\ \E l \in 1 .. Len(map.layers) :
       \E x \in 0 .. (map.layers[l].width - 1), y \in 0 .. (map.layers[l].height - 1) :
         ret' = [op |-> "flipped_horizontally", layer |-> l, x |-> x, y |-> y,
                 value |-> flipped_horizontally(map.layers[l], x, y)]
    /\ UNCHANGED <<charSigned, map, grids, pc, log>>

Call_flipped_vertically ==
    /\ pc = "live" /\ ret = NoRet
    /\ \E l \in 1 .. Len(map.layers) :
       \E x \in 0 .. (map.layers[l].width - 1), y \in 0 .. (map.layers[l].height - 1) :
         ret' = [op |-> "flipped_vertically", layer |-> l, x |-> x, y |-> y,
                 value |-> flipped_vertically(map.layers[l], x, y)]
    /\ UNCHANGED <<charSigned, map, grids, pc, log>>

\* al_get_tiles, map.c:50-66.  The buffer holds tiles_alloc(layer_count)
\* chars; a store to an index at or past that size is undefined behaviour,
\* whose outcomes are: the process is killed, or the call returns and the
\* memory past the buffer reads back as the stored char or as something else.
Call_al_get_tiles ==
    /\ pc = "live" /\ ret = NoRet
    /\ \E x \in 0 .. (MaxW - 1), y \in 0 .. (MaxH - 1) :
         /\ InBounds(x, y)
         /\ LET layer_count == g_slist_length(map.layers)
                size == tiles_alloc(layer_count)
                loop == tiles_loop(map.layers, x, y)
                written == tiles_written(layer_count)
                stored(i) == IF i < layer_count THEN loop[i + 1] ELSE Sentinel
                outside == {i \in written : i >= size}
            IN  \E killed \in (IF outside = {} THEN {FALSE} ELSE BOOLEAN),
                   junk \in {ByteToChar(0), Sentinel} :
                  ret' = [op |-> "al_get_tiles", x |-> x, y |-> y,
                          size |-> size,
                          written |-> written,
                          killed |-> killed,
                          \* the chars of the buffer: an index that was never
                          \* stored to holds an indeterminate value
                          tiles |-> [i \in 1 .. size |->
                                        IF (i - 1) \in written THEN stored(i - 1)
                                        ELSE junk],
                          \* what tiles[size] reads back as
                          past |-> junk]
    /\ UNCHANGED <<charSigned, map, grids, pc, log>>

NextTile ==
    \/ Call_al_get_single_tile
    \/ Call_flipped_horizontally
    \/ Call_flipped_vertically

SpecTile == InitTile /\ [][NextTile]_vars

NextTiles == Call_al_get_tiles

SpecTiles == InitTiles /\ [][NextTiles]_vars

-----------------------------------------------------------------------------
(* Registry and property lookups, map.c:87-134 *)

\* A C string is the sequence of its chars before the terminating NUL.
RECURSIVE strcmp(_, _)
strcmp(a, b) ==
    IF a = <<>> /\ b = <<>> THEN 0
    ELSE IF a = <<>> THEN 0 - Head(b)
    ELSE IF b = <<>> THEN Head(a)
    ELSE IF Head(a) # Head(b) THEN Head(a) - Head(b)
    ELSE strcmp(Tail(a), Tail(b))

\* (gpointer)id: the char converted to a pointer-sized integer, its value kept.
CharToPointer(id) == id

\* g_hash_table_lookup: the value stored under the key, NULL without one.
g_hash_table_lookup(table, key) ==
    IF key \in DOMAIN table THEN table[key] ELSE NULL

al_get_tile_for_id_no_zero_check(m, id) ==
    g_hash_table_lookup(m.tiles, CharToPointer(id))

al_get_tile_for_id(m, id) ==
    IF id = 0 THEN NULL
    ELSE g_hash_table_lookup(m.tiles, CharToPointer(id))

\* The while loop of al_get_tile_property (map.c:103-110) and of
\* al_get_object_property (map.c:123-130); NoMatch when it runs off the list.
NoMatch == "no match"

RECURSIVE scan_properties(_, _)
scan_properties(properties, name) ==
    IF properties = <<>> THEN NoMatch
    ELSE IF strcmp(Head(properties).name, name) = 0 THEN Head(properties).value
    ELSE scan_properties(Tail(properties), name)

\* The same loop with the return taken out of it: the last match wins.
RECURSIVE scan_properties_last(_, _)
scan_properties_last(properties, name) ==
    IF properties = <<>> THEN NoMatch
    ELSE LET rest == scan_properties_last(Tail(properties), name) IN
         IF rest # NoMatch THEN rest
         ELSE IF strcmp(Head(properties).name, name) = 0 THEN Head(properties).value
         ELSE NoMatch

TileAt(m, tile) == m.tilesets[tile.ts].tiles[tile.t]

al_get_tile_property_last_match(m, tile, name, def) ==
    IF tile # NULL
    THEN LET found == scan_properties_last(TileAt(m, tile).properties, name) IN
         IF found # NoMatch THEN found ELSE def
    ELSE def

al_get_tile_property(m, tile, name, def) ==
    IF tile # NULL
    THEN LET found == scan_properties(TileAt(m, tile).properties, name) IN
         IF found # NoMatch THEN found ELSE def
    ELSE def

al_get_object_property(m, object, name, def) ==
    IF object # NULL_OBJECT
    THEN LET found == scan_properties(m.objects[object].properties, name) IN
         IF found # NoMatch THEN found ELSE def
    ELSE def

-----------------------------------------------------------------------------
(* Specification of the lookups: one call on a map per behaviour *)

\* Property names "a", "ab" and "b" as char codes.
Names == {<<97>>, <<97, 98>>, <<98>>}

\* The value of the k-th property of a list, different for every k.
PropValue(k) == <<"value", k>>
Default == <<"default", 0>>

\* Property lists of up to MaxProps entries with any names.
PropertyLists ==
    UNION {[1 .. n -> Names] : n \in 0 .. MaxProps}
MakeProperties(names) ==
    [k \in 1 .. Len(names) |-> [name |-> names[k], value |-> PropValue(k)]]

\* The keys the registry may hold: 0, a small id, and the two pointer values
\* of the byte 0xFF (as a signed and as an unsigned char).
RegistryKeys == {0, 1, Pow2(CharBits) - 1, -1}

InitQuery ==
    /\ charSigned \in BOOLEAN
    /\ pc = "live"
    /\ log = <<>>
    /\ ret = NoRet
    /\ grids = <<>>
    /\ \E names \in PropertyLists, keys \in SUBSET RegistryKeys :
       \E table \in [keys -> {TileRef(1, 1), TileRef(1, 2)}] :
         map = [EmptyMap EXCEPT
                  !.tilesets = <<[tiles |->
                                    <<[id |-> 1, properties |-> MakeProperties(names)],
                                      [id |-> 2, properties |-> <<>>]>>]>>,
                  !.objects = <<[properties |-> MakeProperties(names)]>>,
                  !.tiles = table]

Call_al_get_tile_for_id ==
    /\ pc = "live" /\ ret = NoRet
    /\ \E byte \in {0, 1, 2, Pow2(CharBits) - 1} :
         LET id == ByteToChar(byte) IN
         ret' = [op |-> "al_get_tile_for_id", id |-> id,
                 value |-> al_get_tile_for_id(map, id)]
    /\ UNCHANGED <<charSigned, map, grids, pc, log>>

Call_al_get_tile_property ==
    /\ pc = "live" /\ ret = NoRet
    /\ \E tile \in {NULL, TileRef(1, 1), TileRef(1, 2)}, name \in Names :
         ret' = [op |-> "al_get_tile_property", tile |-> tile, name |-> name,
                 def |-> Default,
                 value |-> al_get_tile_property(map, tile, name, Default)]
    /\ UNCHANGED <<charSigned, map, grids, pc, log>>

Call_al_get_object_property ==
    /\ pc = "live" /\ ret = NoRet
    /\ \E object \in {NULL_OBJECT, 1}, name \in Names :
         ret' = [op |-> "al_get_object_property", object |-> object, name |-> name,
                 def |-> Default,
                 value |-> al_get_object_property(map, object, name, Default)]
    /\ UNCHANGED <<charSigned, map, grids, pc, log>>

NextQuery ==
    \/ Call_al_get_tile_for_id
    \/ Call_al_get_tile_property
    \/ Call_al_get_object_property

SpecQuery == InitQuery /\ [][NextQuery]_vars

-----------------------------------------------------------------------------
(* Teardown, map.c:136-199 *)

\* An allocation of the graph: the struct at a place of the graph (part
\* "struct") or something one of its fields points to (part = the field).
\* a, b, c are the positions in the owning lists, 0 where there is none.
Alloc(kind, a, b, c) == [kind |-> kind, a |-> a, b |-> b, c |-> c, part |-> "struct"]
Field(struct, field) == [struct EXCEPT !.part = field]

MapStruct == Alloc("map", 0, 0, 0)
TilesetStruct(i) == Alloc("tileset", i, 0, 0)
TileStruct(i, j) == Alloc("tile", i, j, 0)
TilePropStruct(i, j, k) == Alloc("tile property", i, j, k)
LayerStruct(i) == Alloc("layer", i, 0, 0)
ObjectStruct(i) == Alloc("object", i, 0, 0)
ObjectPropStruct(i, k) == Alloc("object property", i, 0, k)
GroupStruct(i) == Alloc("object group", i, 0, 0)

\* The events of a teardown: a read of a field of a struct, and the three
\* ways an allocation is released.
Read(struct) == [op |-> "read", obj |-> struct]
al_free(obj) == [op |-> "al_free", obj |-> obj]
al_destroy_bitmap(obj) == [op |-> "al_destroy_bitmap", obj |-> obj]
g_hash_table_unref(obj) == [op |-> "g_hash_table_unref", obj |-> obj]

\* g_slist_free_full(list, free_func): free_func on every element, in list
\* order; `freed` holds what free_func does for each element.
RECURSIVE g_slist_free_full(_)
g_slist_free_full(freed) ==
    IF freed = <<>> THEN <<>> ELSE Head(freed) \o g_slist_free_full(Tail(freed))

_al_free_property(prop) ==
    << Read(prop), al_free(Field(prop, "name")),
       Read(prop), al_free(Field(prop, "value")),
       al_free(prop) >>

_al_free_tile(i, j, tile) ==
    <<Read(TileStruct(i, j))>>
    \o g_slist_free_full([k \in 1 .. Len(tile.properties) |->
                            _al_free_property(TilePropStruct(i, j, k))])
    \o << Read(TileStruct(i, j)), al_destroy_bitmap(Field(TileStruct(i, j), "bitmap")),
          al_free(TileStruct(i, j)) >>

_al_free_tileset_struct_first(i, tileset) ==
    << Read(TilesetStruct(i)), al_free(Field(TilesetStruct(i), "name")),
       Read(TilesetStruct(i)), al_free(Field(TilesetStruct(i), "source")),
       al_free(TilesetStruct(i)),
       Read(TilesetStruct(i)) >>
    \o g_slist_free_full([j \in 1 .. Len(tileset.tiles) |->
                            _al_free_tile(i, j, tileset.tiles[j])])
    \o << Read(TilesetStruct(i)), al_destroy_bitmap(Field(TilesetStruct(i), "bitmap")) >>

_al_free_tileset(i, tileset) ==
    << Read(TilesetStruct(i)), al_free(Field(TilesetStruct(i), "name")),
       Read(TilesetStruct(i)), al_free(Field(TilesetStruct(i), "source")),
       Read(TilesetStruct(i)) >>
    \o g_slist_free_full([j \in 1 .. Len(tileset.tiles) |->
                            _al_free_tile(i, j, tileset.tiles[j])])
    \o << Read(TilesetStruct(i)), al_destroy_bitmap(Field(TilesetStruct(i), "bitmap")),
          al_free(TilesetStruct(i)) >>

_al_free_layer(i) ==
    << Read(LayerStruct(i)), al_free(Field(LayerStruct(i), "name")),
       Read(LayerStruct(i)), al_free(Field(LayerStruct(i), "data")),
       al_free(LayerStruct(i)) >>

_al_free_object(i, object) ==
    <<Read(ObjectStruct(i))>>
    \o g_slist_free_full([k \in 1 .. Len(object.properties) |->
                            _al_free_property(ObjectPropStruct(i, k))])
    \o << Read(ObjectStruct(i)), al_free(Field(ObjectStruct(i), "name")),
          Read(ObjectStruct(i)), al_free(Field(ObjectStruct(i), "type")),
          al_free(ObjectStruct(i)) >>

_al_free_object_group(i) ==
    << Read(GroupStruct(i)), al_free(Field(GroupStruct(i), "name")),
       al_free(GroupStruct(i)) >>

\* Whether the parser gave the registry a value-destroy function.  It did
\* not: the registry is a non-owning index over the tilesets' tiles.
tiles_value_destroy_func == FALSE

\* What a value-destroy function of _al_free_tile does when the table is
\* destroyed: it runs on the value of every entry.
RECURSIVE destroy_values(_, _)
destroy_values(m, keys) ==
    IF keys = {} THEN <<>>
    ELSE LET key == CHOOSE k \in keys : \A other \in keys : k <= other
             tile == m.tiles[key]
         IN  _al_free_tile(tile.ts, tile.t, TileAt(m, tile))
             \o destroy_values(m, keys \ {key})

unref_tiles_owning(m) ==
    <<Read(MapStruct), g_hash_table_unref(Field(MapStruct, "tiles"))>>
    \o destroy_values(m, DOMAIN m.tiles)

\* g_hash_table_unref(map->tiles): the parser's reference is the only one,
\* so the table is destroyed, and its values with it if it owns them.
unref_tiles(m) ==
    <<Read(MapStruct), g_hash_table_unref(Field(MapStruct, "tiles"))>>
    \o (IF tiles_value_destroy_func THEN destroy_values(m, DOMAIN m.tiles) ELSE <<>>)

\* al_free_map, one action per statement of map.c:191-198.
al_free_map_orientation ==
    /\ pc = "live" /\ ret = NoRet
    /\ log' = log \o <<Read(MapStruct), al_free(Field(MapStruct, "orientation"))>>
    /\ pc' = "tilesets"
    /\ UNCHANGED <<charSigned, map, grids, ret>>

al_free_map_tilesets ==
    /\ pc = "tilesets"
    /\ log' = log \o <<Read(MapStruct)>>
              \o g_slist_free_full([i \in 1 .. Len(map.tilesets) |->
                                      _al_free_tileset(i, map.tilesets[i])])
    /\ pc' = "layers"
    /\ UNCHANGED <<charSigned, map, grids, ret>>

al_free_map_layers ==
    /\ pc = "layers"
    /\ log' = log \o <<Read(MapStruct)>>
              \o g_slist_free_full([i \in 1 .. Len(map.layers) |-> _al_free_layer(i)])
    /\ pc' = "objects"
    /\ UNCHANGED <<charSigned, map, grids, ret>>

al_free_map_objects ==
    /\ pc = "objects"
    /\ log' = log \o <<Read(MapStruct)>>
              \o g_slist_free_full([i \in 1 .. Len(map.objects) |->
                                      _al_free_object(i, map.objects[i])])
    /\ pc' = "object_groups"
    /\ UNCHANGED <<charSigned, map, grids, ret>>

al_free_map_object_groups ==
    /\ pc = "object_groups"
    /\ log' = log \o <<Read(MapStruct)>>
              \o g_slist_free_full([i \in 1 .. Len(map.object_groups) |->
                                      _al_free_object_group(i)])
    /\ pc' = "tiles"
    /\ UNCHANGED <<charSigned, map, grids, ret>>

al_free_map_tiles ==
    /\ pc = "tiles"
    /\ log' = log \o unref_tiles(map)
    /\ pc' = "backbuffer"
    /\ UNCHANGED <<charSigned, map, grids, ret>>

al_free_map_backbuffer ==
    /\ pc = "backbuffer"
    /\ log' = log \o <<Read(MapStruct), al_destroy_bitmap(Field(MapStruct, "backbuffer"))>>
    /\ pc' = "map"
    /\ UNCHANGED <<charSigned, map, grids, ret>>

al_free_map_struct ==
    /\ pc = "map"
    /\ log' = log \o <<al_free(MapStruct)>>
    /\ pc' = "done"
    /\ UNCHANGED <<charSigned, map, grids, ret>>

-----------------------------------------------------------------------------
(* Specification of the teardown *)

\* The graphs torn down: any number of tilesets, tiles per tileset,
\* properties per tile and per object, layers, objects and object groups
\* within the bounds; the tiles all carry the same id or each its own; the
\* registry is empty or holds one of the tiles under each id in use.
TileId(i, j, same) == IF same THEN 1 ELSE 1 + j + ((i - 1) * MaxTiles)

FixedProperties(n) == MakeProperties([k \in 1 .. n |-> <<97>>])

FreedLayer == MakeLayer(1, 1, 1, 0, <<0, 0>>, 0, 0)

AllTiles(m) ==
    {TileRef(i, j) : i \in 1 .. Len(m.tilesets), j \in 1 .. MaxTiles}
        \cap {r \in [ts : 1 .. MaxTilesets, t : 1 .. MaxTiles] :
                r.ts <= Len(m.tilesets) /\ r.t <= Len(m.tilesets[r.ts].tiles)}

\* The registries a parser can have built over the tiles of m: per id, the
\* first or the last tile carrying it.
Registries(m) ==
    LET ids == {TileAt(m, r).id : r \in AllTiles(m)}
        carrying(id) == {r \in AllTiles(m) : TileAt(m, r).id = id}
        before(r, q) == r.ts < q.ts \/ (r.ts = q.ts /\ r.t <= q.t)
        first(id) == CHOOSE r \in carrying(id) : \A q \in carrying(id) : before(r, q)
        last(id) == CHOOSE r \in carrying(id) : \A q \in carrying(id) : before(q, r)
    IN  {[id \in ids |-> first(id)], [id \in ids |-> last(id)], [id \in {} |-> NULL]}

InitFree ==
    /\ charSigned = TRUE
    /\ pc = "live"
    /\ log = <<>>
    /\ ret = NoRet
    /\ grids = <<>>
    /\ \E nts \in 0 .. MaxTilesets, nt \in 0 .. MaxTiles, np \in 0 .. MaxProps,
          nl \in 0 .. MaxLayers, no \in 0 .. MaxObjects, ng \in 0 .. MaxGroups,
          same \in BOOLEAN :
         LET m == [layers |-> [i \in 1 .. nl |-> FreedLayer],
                   tilesets |-> [i \in 1 .. nts |->
                                   [tiles |-> [j \in 1 .. nt |->
                                                 [id |-> TileId(i, j, same),
                                                  properties |-> FixedProperties(np)]]]],
                   objects |-> [i \in 1 .. no |-> [properties |-> FixedProperties(np)]],
                   object_groups |-> [i \in 1 .. ng |-> [objects |-> <<>>]],
                   tiles |-> <<>>]
         IN  \E table \in Registries(m) : map = [m EXCEPT !.tiles = table]

NextFree ==
    \/ al_free_map_orientation
    \/ al_free_map_tilesets
    \/ al_free_map_layers
    \/ al_free_map_objects
    \/ al_free_map_object_groups
    \/ al_free_map_tiles
    \/ al_free_map_backbuffer
    \/ al_free_map_struct

SpecFree == InitFree /\ [][NextFree]_vars

-----------------------------------------------------------------------------
(* Properties of the tile accessors *)

\* The byte stored for cell (x,y) of layer l.
CellByte(l, x, y) == map.layers[l].data[1 + x + (y * map.layers[l].width)]

LowBitsMask == FLIPPED_DIAGONALLY_FLAG - 1

\* C3: for every raw byte at an in-bounds cell, al_get_single_tile returns
\* the byte with the three most-significant bits cleared and the five low
\* bits unchanged (raw & 0x1F).
C3_SingleTileMasksFlags ==
    ret.op = "al_get_single_tile" =>
        ret.value = CellByte(ret.layer, ret.x, ret.y) % (LowBitsMask + 1)

C3_Witness ==
    /\ ret.op = "al_get_single_tile"
    /\ CellByte(ret.layer, ret.x, ret.y) = Pow2(CharBits) - 1
    /\ ret.value = LowBitsMask

BitSet(byte, flag) == (byte \div flag) % 2 = 1

\* C4: flipped_horizontally is true iff the horizontal-flip bit of the raw
\* byte is set and flipped_vertically iff the vertical-flip bit is set,
\* whatever the other flag bits and the id bits are.
C4_FlipTestsReadTheirBit ==
    /\ ret.op = "flipped_horizontally" =>
         (ret.value <=> BitSet(CellByte(ret.layer, ret.x, ret.y),
                               FLIPPED_HORIZONTALLY_FLAG))
    /\ ret.op = "flipped_vertically" =>
         (ret.value <=> BitSet(CellByte(ret.layer, ret.x, ret.y),
                               FLIPPED_VERTICALLY_FLAG))

C4_Witness ==
    /\ ret.op = "flipped_vertically"
    /\ BitSet(CellByte(ret.layer, ret.x, ret.y), FLIPPED_HORIZONTALLY_FLAG)
    /\ BitSet(CellByte(ret.layer, ret.x, ret.y), FLIPPED_DIAGONALLY_FLAG)
    /\ ~BitSet(CellByte(ret.layer, ret.x, ret.y), FLIPPED_VERTICALLY_FLAG)
    /\ ret.value = FALSE

\* C8: a layer filled row-major from a grid of unflagged ids, with any flags
\* set, reads back the grid's id at every cell, and two different in-bounds
\* cells are read from two different array positions.
C8_RoundTrip ==
    ret.op = "al_get_single_tile" =>
        LET layer == map.layers[ret.layer] IN
        /\ ret.value = grids[ret.layer][<<ret.x, ret.y>>]
        /\ ret.index \in 0 .. (Len(layer.data) - 1)
        /\ \A c \in Cells(layer.width, layer.height) \ {<<ret.x, ret.y>>} :
             tile_index(layer, c[1], c[2]) # ret.index

C8_Witness ==
    /\ ret.op = "al_get_single_tile"
    /\ map.layers[ret.layer].width = 2
    /\ map.layers[ret.layer].height = 2
    /\ ret.x = 0 /\ ret.y = 1
    /\ CellByte(ret.layer, 0, 1) > LowBitsMask
    /\ ret.value = grids[ret.layer][<<0, 1>>]

\* C1: al_get_tiles returns a sequence of layer_count+1 chars, the i-th
\* being al_get_single_tile of the i-th layer and the last the sentinel.
C1_TilesLengthAndContent ==
    ret.op = "al_get_tiles" =>
        LET layer_count == Len(map.layers) IN
        /\ ~ret.killed
        /\ Len(ret.tiles) = layer_count + 1
        /\ \A i \in 1 .. layer_count :
             ret.tiles[i] = al_get_single_tile(map.layers[i], ret.x, ret.y)
        /\ ret.tiles[layer_count + 1] = Sentinel

\* What a caller reads walking the returned pointer up to index layer_count.
Scanned == ret.tiles \o <<ret.past>>

\* C9: none of the first layer_count elements is the sentinel, and the first
\* sentinel the caller meets is the one at index layer_count.
C9_SentinelTerminates ==
    ret.op = "al_get_tiles" =>
        LET layer_count == Len(map.layers) IN
        /\ ~ret.killed
        /\ \A i \in 1 .. layer_count : Scanned[i] # Sentinel
        /\ Scanned[layer_count + 1] = Sentinel

\* C10: every index al_get_tiles stores to is inside the buffer it allocated.
C10_StoresInsideBuffer ==
    ret.op = "al_get_tiles" => \A i \in ret.written : i < ret.size

-----------------------------------------------------------------------------
(* Properties of the lookups *)

\* C5: al_get_tile_for_id returns NULL for id 0 whatever the registry holds,
\* an entry under key 0 included; for a non-zero id it returns the
\* registry's entry for the id, NULL when the id is no key of the registry.
C5_TileForId ==
    ret.op = "al_get_tile_for_id" =>
        /\ ret.id = 0 => ret.value = NULL
        /\ (ret.id # 0 /\ ret.id \in DOMAIN map.tiles) => ret.value = map.tiles[ret.id]
        /\ (ret.id # 0 /\ ret.id \notin DOMAIN map.tiles) => ret.value = NULL

C5_Witness ==
    /\ ret.op = "al_get_tile_for_id"
    /\ ret.id = 0
    /\ 0 \in DOMAIN map.tiles
    /\ map.tiles[0] # NULL
    /\ ret.value = NULL

\* The value of the earliest property of the list named `name`, else def.
FirstMatch(properties, name, def) ==
    LET hits == {k \in 1 .. Len(properties) : properties[k].name = name} IN
    IF hits = {} THEN def
    ELSE properties[CHOOSE k \in hits : \A j \in hits : k <= j].value

\* C6: al_get_tile_property returns the value of the first property of the
\* tile's list whose name equals the name asked for, and def when none
\* matches, the list is empty or the tile is absent; al_get_object_property
\* returns the same for an object holding the same list.
C6_FirstMatchOrDefault ==
    /\ ret.op = "al_get_tile_property" =>
         ret.value = IF ret.tile = NULL THEN ret.def
                     ELSE FirstMatch(TileAt(map, ret.tile).properties, ret.name, ret.def)
    /\ ret.op = "al_get_object_property" =>
         ret.value = IF ret.object = NULL_OBJECT THEN ret.def
                     ELSE FirstMatch(map.objects[ret.object].properties, ret.name, ret.def)
    /\ (ret.op = "al_get_object_property" /\ ret.object # NULL_OBJECT) =>
         ret.value = al_get_tile_property(map, TileRef(1, 1), ret.name, ret.def)

C6_Witness ==
    /\ ret.op = "al_get_tile_property"
    /\ ret.tile = TileRef(1, 1)
    /\ Len(TileAt(map, ret.tile).properties) = 2
    /\ TileAt(map, ret.tile).properties[1].name = ret.name
    /\ TileAt(map, ret.tile).properties[2].name = ret.name
    /\ ret.value = PropValue(1)

-----------------------------------------------------------------------------
(* Properties of the teardown *)

\* The allocations of the ownership graph of m: every struct and everything
\* its fields own.
Owned(m) ==
    {MapStruct} \cup {Field(MapStruct, f) : f \in {"orientation", "tiles", "backbuffer"}}
    \cup UNION {{TilesetStruct(i)}
                \cup {Field(TilesetStruct(i), f) : f \in {"name", "source", "bitmap"}}
                : i \in 1 .. Len(m.tilesets)}
    \cup UNION {UNION {{TileStruct(i, j), Field(TileStruct(i, j), "bitmap")}
                       \cup UNION {{TilePropStruct(i, j, k)}
                                   \cup {Field(TilePropStruct(i, j, k), f)
                                         : f \in {"name", "value"}}
                                   : k \in 1 .. Len(m.tilesets[i].tiles[j].properties)}
                       : j \in 1 .. Len(m.tilesets[i].tiles)}
                : i \in 1 .. Len(m.tilesets)}
    \cup UNION {{LayerStruct(i)} \cup {Field(LayerStruct(i), f) : f \in {"name", "data"}}
                : i \in 1 .. Len(m.layers)}
    \cup UNION {{ObjectStruct(i)}
                \cup {Field(ObjectStruct(i), f) : f \in {"name", "type"}}
                \cup UNION {{ObjectPropStruct(i, k)}
                            \cup {Field(ObjectPropStruct(i, k), f) : f \in {"name", "value"}}
                            : k \in 1 .. Len(m.objects[i].properties)}
                : i \in 1 .. Len(m.objects)}
    \cup UNION {{GroupStruct(i), Field(GroupStruct(i), "name")}
                : i \in 1 .. Len(m.object_groups)}

IsRelease(e) == e.op # "read"
Releases == SelectSeq(log, IsRelease)
Released == {Releases[i].obj : i \in DOMAIN Releases}
ReleaseCount(obj) == Cardinality({i \in DOMAIN Releases : Releases[i].obj = obj})

\* C2: al_free_map releases every allocation of the ownership graph exactly
\* once: nothing is ever released twice or from outside the graph, and when
\* al_free_map has returned nothing of the graph is left unreleased.
C2_EachReleasedExactlyOnce ==
    /\ Cardinality(Released) = Len(Releases)
    /\ Released \subseteq Owned(map)
    /\ pc = "done" => Released = Owned(map)

\* Two tilesets of one tile each, both tiles under the same id, that id a
\* key of the registry, torn down: each tile released once.
C2_Witness ==
    /\ pc = "done"
    /\ Len(map.tilesets) = 2
    /\ Len(map.tilesets[1].tiles) = 1 /\ Len(map.tilesets[2].tiles) = 1
    /\ map.tilesets[1].tiles[1].id = map.tilesets[2].tiles[1].id
    /\ map.tilesets[1].tiles[1].id \in DOMAIN map.tiles
    /\ ReleaseCount(TileStruct(1, 1)) = 1
    /\ ReleaseCount(TileStruct(2, 1)) = 1

\* The group of the order of C7 an allocation belongs to; 0 for the
\* orientation string, which the order does not mention.
Group(obj) ==
    IF obj.kind \in {"tileset", "tile", "tile property"} THEN 1
    ELSE IF obj.kind = "layer" THEN 2
    ELSE IF obj.kind \in {"object", "object property"} THEN 3
    ELSE IF obj.kind = "object group" THEN 4
    ELSE IF obj.part = "tiles" THEN 5
    ELSE IF obj.part = "backbuffer" THEN 6
    ELSE IF obj.part = "struct" THEN 7
    ELSE 0

IsOrdered(e) == IsRelease(e) /\ Group(e.obj) # 0
Ordered == SelectSeq(log, IsOrdered)

\* The structs released before the n-th event of the log.
StructsFreedBefore(n) ==
    {log[i].obj : i \in {i \in 1 .. (n - 1) :
                            log[i].op = "al_free" /\ log[i].obj.part = "struct"}}

\* C7: the releases come in the order tilesets, layers, objects, object
\* groups, registry, backbuffer, Map struct; what a tileset owns (its tiles,
\* their properties and bitmaps) is released before the tileset struct; the
\* Map struct is released last; no struct is read after its release.
C7_ReleaseOrder ==
    /\ \A i \in 1 .. (Len(Ordered) - 1) :
         Group(Ordered[i].obj) <= Group(Ordered[i + 1].obj)
    /\ \A n \in DOMAIN log :
         LET e == log[n]
             gone == StructsFreedBefore(n)
         IN  /\ MapStruct \notin gone
             /\ e.op = "read" => e.obj \notin gone
             /\ (IsRelease(e) /\ e.obj.kind \in {"tile", "tile property"})
                    => TilesetStruct(e.obj.a) \notin gone

C7_Witness ==
    /\ pc = "done"
    /\ Len(map.tilesets) = 2
    /\ Len(map.tilesets[2].tiles) = 1
    /\ Len(map.tilesets[2].tiles[1].properties) = 1
    /\ Len(map.layers) = 1 /\ Len(map.objects) = 1 /\ Len(map.object_groups) = 1
    /\ DOMAIN map.tiles # {}
    /\ log[Len(log)] = al_free(MapStruct)

====
